---- MODULE Spec2Model ----
(***************************************************************************)
(* Model of src/src/components/DroneShow.vue: the drone swarm, its         *)
(* formation commands and the tweens they hand to gsap.                    *)
(*                                                                         *)
(* Numbers.  Coordinates are fixed-point, 1000 steps per scene unit (the   *)
(* tween renderer of gsap rounds every value it writes to a fixed decimal  *)
(* lattice; the model's lattice is coarser).  Time is counted in whole     *)
(* time units: durations and frame deltas are integers.  Angles are exact  *)
(* fractions of pi, <<num, den>> standing for (num/den)*pi.                *)
(*                                                                         *)
(* gsap.  The component starts every motion with gsap.to(obj, {x, y, z,    *)
(* duration, ease: "power2.inOut"}) and passes no `overwrite` option, so   *)
(* gsap 3's default (overwrite: false) applies: a new tween on an object   *)
(* kills none of the tweens already running on it.  All tweens live on     *)
(* gsap's global timeline in creation order and are rendered in that       *)
(* order once per ticker frame; a tween reads its start values when it is  *)
(* first rendered and is removed when its time reaches its duration; a     *)
(* zero-duration tween is rendered at once, when it is created.            *)
(* Drone.updatePosition (line 46) is never called and is no action.        *)
(***************************************************************************)
EXTENDS Integers, Sequences, FiniteSets, TLC

VARIABLES
    meshPosition,     \* drone.mesh.position, per drone index
    targetPosition,   \* drone.targetPosition, per drone index
    initialPosition,  \* drone.initialPosition, per drone index
    cameraPosition,   \* camera.position
    controlsTarget,   \* controls.target (the camera's look-at target)
    timeline,         \* gsap's global timeline: the live tweens, in creation order
    hist,             \* history of the command surface (observation only)
    gen               \* formation generator under test: inputs and computed output

vars == <<meshPosition, targetPosition, initialPosition, cameraPosition,
          controlsTarget, timeline, hist, gen>>

-----------------------------------------------------------------------------
(* Bounds of the model *)

\* number of drones in the swarm (8000 in the component)
droneCount == 3
\* longest tween duration a command may ask for, in time units
MaxDuration == 2
\* longest time between two ticker frames, in time units
MaxDelta == 2
\* most commands issued through droneAPI in one run
MaxCommands == 2
\* largest swarm size the formation generators are evaluated for
MaxCount == 5

DroneIds == 0..(droneCount - 1)
\* the durations commands are called with: none, short, long
Durations == {0, 1, MaxDuration}
\* the times between two frames: short, long
Deltas == {1, MaxDelta}

-----------------------------------------------------------------------------
(* Fixed-point arithmetic *)

\* one scene unit, in lattice steps
Units(n) == n * 1000

\* Math.round(a / b) for b > 0: to the nearest integer, halves upwards
RoundDiv(a, b) == (2 * a + b) \div (2 * b)

\* the value of every coordinate computed from 0/0
NaN == 0 - 2000000000

RECURSIVE SqrtSearch(_, _, _)
SqrtSearch(n, lo, hi) ==
    IF lo >= hi THEN lo
    ELSE LET mid == (lo + hi + 1) \div 2
         IN  IF mid * mid <= n THEN SqrtSearch(n, mid, hi)
             ELSE SqrtSearch(n, lo, mid - 1)

\* floor of the square root of n, 0 <= n <= 10^8
ISqrt(n) == SqrtSearch(n, 0, 10000)

\* Math.ceil(Math.sqrt(n))
CeilSqrt(n) == LET r == ISqrt(n) IN IF r * r = n THEN r ELSE r + 1

\* Math.sqrt of a fixed-point number in [0, 1]
FSqrt(v) == ISqrt(v * 1000)

\* NaN is contagious: any arithmetic on NaN yields NaN
NaNOr(a, v) == IF a = NaN THEN NaN ELSE v

\* a / b in fixed point for integers a >= 0, b >= 0; 0/0 is NaN.  (a/0 with
\* a > 0 does not arise: the only zero divisor is drones.length - 1 = 0, and
\* then the only index is 0.)
FDiv(a, b) == IF b = 0 THEN NaN ELSE RoundDiv(a * 1000, b)

-----------------------------------------------------------------------------
(* Trigonometry on angles that are fractions of pi *)

\* Taylor polynomial of cos(x) for x in [0, pi/2], x and result in 1/1000
CosTaylor(x) ==
    LET x2 == RoundDiv(x * x, 1000)
        x4 == RoundDiv(x2 * x2, 1000)
        x6 == RoundDiv(x4 * x2, 1000)
        x8 == RoundDiv(x6 * x2, 1000)
    IN  RoundDiv(1000 * 40320 - x2 * 20160 + x4 * 1680 - x6 * 56 + x8, 40320)

\* radians (1/1000) of m thousandths of pi
MilliPiToRad(m) == RoundDiv(m * 31416, 10000)

\* Math.cos of the angle (a[1]/a[2])*pi, in 1/1000
Cos(a) ==
    LET q == a[1] % (2 * a[2])
        m == RoundDiv(q * 1000, a[2])
    IN  IF m <= 500 THEN CosTaylor(MilliPiToRad(m))
        ELSE IF m <= 1000 THEN 0 - CosTaylor(MilliPiToRad(1000 - m))
        ELSE IF m <= 1500 THEN 0 - CosTaylor(MilliPiToRad(m - 1000))
        ELSE CosTaylor(MilliPiToRad(2000 - m))

\* Math.sin of the angle (a[1]/a[2])*pi, in 1/1000: sin(t) = cos(t - pi/2)
Sin(a) == Cos(<<2 * a[1] - a[2], 2 * a[2]>>)

-----------------------------------------------------------------------------
(* Formation generators *)

\* spacing = 0.5 (line 142), in lattice steps
spacing == 500

\* turns of the helix (line 216)
turns == 3

\* the grid position drone i of n is constructed at (initScene, lines 140-151)
GridPosition(i, n) ==
    LET gridSize == CeilSqrt(n)
        offset == (gridSize * spacing) \div 2
    IN  <<(i % gridSize) * spacing - offset,
          (i \div gridSize) * spacing - offset,
          0>>

\* phi = Math.PI * (3 - Math.sqrt(5)) as a fraction of pi (line 201)
phi == <<7639, 10000>>

\* theta = phi * i (line 206)
SphereTheta(i) == <<phi[1] * i, phi[2]>>

\* y = 1 - (i / (drones.length - 1)) * 2 (line 204)
SphereY(i, n) == LET ratio == FDiv(i, n - 1) IN NaNOr(ratio, 1000 - ratio * 2)

\* the target formSphere gives drone i of n (lines 204-211)
SphereTarget(i, n, radius) ==
    LET y == SphereY(i, n)
        r == NaNOr(y, FSqrt(1000 - RoundDiv(y * y, 1000)))
        theta == SphereTheta(i)
        x == NaNOr(r, RoundDiv(Cos(theta) * r * radius, 1000))
        z == NaNOr(r, RoundDiv(Sin(theta) * r * radius, 1000))
    IN  <<x, NaNOr(y, y * radius), z>>

\* the fraction taken over drones.length - 1, as formSphere takes it
HelixAngleInclusive(i, n) == <<i * 2 * turns, IF n > 1 THEN n - 1 ELSE 1>>

\* angle = (i / drones.length) * Math.PI * 2 * turns (line 218)
HelixAngle(i, n) == <<i * 2 * turns, n>>

\* the target formDoubleHelix gives drone i of n (lines 218-224)
HelixTarget(i, n, radius, height) ==
    LET angle == HelixAngle(i, n)
        y == FDiv(i, n) * height - (height * 1000) \div 2
    IN  <<Cos(angle) * radius, y, Sin(angle) * radius>>

-----------------------------------------------------------------------------
(* gsap tweens *)

\* the objects the component animates
Mesh(i) == <<"mesh", i>>
Camera == <<"camera", 0>>
Controls == <<"controls", 0>>
Animated == {Mesh(i) : i \in DroneIds} \cup {Camera, Controls}

\* ease "power2.inOut" at progress t/d, as the fraction EaseNum / EaseDen:
\* p < .5 ? (2p)^3 / 2 : 1 - (2(1 - p))^3 / 2
EaseNum(t, d) ==
    IF t >= d THEN d * d * d
    ELSE IF 2 * t < d THEN 4 * t * t * t
    ELSE d * d * d - 4 * (d - t) * (d - t) * (d - t)

EaseDen(d) == d * d * d

\* one coordinate of a tween at time t: round(s + (e - s) * ratio)
TweenValue(s, e, t, d) == s + RoundDiv((e - s) * EaseNum(t, d), EaseDen(d))

\* the x, y, z a tween writes at time t
TweenVector(start, to, t, d) ==
    [c \in 1..3 |-> TweenValue(start[c], to[c], t, d)]

\* gsap.to(obj, {x, y, z, duration, ease}): the tween put on the timeline.  No
\* overwrite option is passed, so the tweens already on obj stay alive.  The
\* start values are read at the first render; `last` marks the tweens of the
\* most recent command (observation only).
GsapTo(obj, to, duration) ==
    [target |-> obj, to |-> to, duration |-> duration, time |-> 0,
     initted |-> FALSE, start |-> to, last |-> TRUE]

\* the values of all animated objects, by object
Values(mesh, cam, ctl) ==
    [o \in Animated |->
        IF o = Camera THEN cam ELSE IF o = Controls THEN ctl ELSE mesh[o[2]]]

Min(a, b) == IF a < b THEN a ELSE b

\* first pass of a frame: the tweens that are already initialised write their
\* value at their new time, in timeline order (a later tween overwrites an
\* earlier one on the same object)
RECURSIVE RenderPass(_, _, _, _)
RenderPass(tl, k, val, delta) ==
    IF k > Len(tl) THEN val
    ELSE LET tw == tl[k]
         IN  IF tw.initted
             THEN RenderPass(tl, k + 1,
                     [val EXCEPT ![tw.target] =
                         TweenVector(tw.start, tw.to, tw.time + delta, tw.duration)],
                     delta)
             ELSE RenderPass(tl, k + 1, val, delta)

\* end of the frame: the tweens initialised in this frame (lazy) write their
\* first value, in timeline order, from the start values they read
RECURSIVE LazyRender(_, _, _, _, _)
LazyRender(tl, k, val, starts, delta) ==
    IF k > Len(tl) THEN val
    ELSE LET tw == tl[k]
         IN  IF tw.initted
             THEN LazyRender(tl, k + 1, val, starts, delta)
             ELSE LazyRender(tl, k + 1,
                     [val EXCEPT ![tw.target] =
                         TweenVector(starts[tw.target], tw.to, delta, tw.duration)],
                     starts, delta)

\* the timeline after a frame: times advanced, new tweens initialised with
\* the start values they read, finished tweens removed
Advance(tl, starts, delta) ==
    LET moved == [k \in 1..Len(tl) |->
                    IF tl[k].initted
                    THEN [tl[k] EXCEPT !.time = Min(@ + delta, tl[k].duration)]
                    ELSE [tl[k] EXCEPT !.initted = TRUE,
                                       !.start = starts[tl[k].target],
                                       !.time = Min(delta, tl[k].duration)]]
        Alive(tw) == tw.time < tw.duration
    IN  SelectSeq(moved, Alive)

\* the tweens of the timeline on object obj
TweensOn(tl, obj) == LET On(tw) == tw.target = obj IN SelectSeq(tl, On)

\* the timeline with no tween marked as the most recent command's
Unmark(tl) == [k \in 1..Len(tl) |-> [tl[k] EXCEPT !.last = FALSE]]

-----------------------------------------------------------------------------
(* The component: state after initScene, and the operations of droneAPI *)

\* initialCameraPosition (lines 15-18)
initialCameraPosition ==
    [position |-> <<Units(0), Units(20), Units(50)>>,
     target |-> <<Units(0), Units(0), Units(0)>>]

\* default radius of formSphere and formDoubleHelix (lines 200, 215)
defaultRadius == 10
\* default height of formDoubleHelix (line 215)
defaultHeight == 20

\* the arguments the commands are called with
Radii == {defaultRadius}
Heights == {defaultHeight}

\* where the user can bring the camera with the orbit controls: the initial
\* pose, and a pose rotated about a panned target
CameraPoses ==
    {<<initialCameraPosition.position, initialCameraPosition.target>>,
     <<<<Units(55), Units(20), Units(0)>>, <<Units(5), Units(0), Units(0)>>>>}

\* the grid the swarm is constructed on (lines 145-156)
gridPositions == [i \in DroneIds |-> GridPosition(i, droneCount)]

\* the targets formSphere computes for the swarm, by radius
sphereTargets ==
    [r \in Radii |-> [i \in DroneIds |-> SphereTarget(i, droneCount, r)]]

\* the targets formDoubleHelix computes for the swarm, by radius and height
helixTargets ==
    [r \in Radii |-> [h \in Heights |->
        [i \in DroneIds |-> HelixTarget(i, droneCount, r, h)]]]

\* the swarm as the commands see it
Swarm == [mesh |-> meshPosition, target |-> targetPosition, tl |-> Unmark(timeline)]

\* Drone.setTarget(position, duration) on drone i (lines 50-59): the target is
\* copied, and a tween towards it is started; a zero-duration tween renders
\* at once and is never put on the timeline
setTarget(sw, i, position, duration) ==
    [mesh |-> IF duration = 0 THEN [sw.mesh EXCEPT ![i] = position] ELSE sw.mesh,
     target |-> [sw.target EXCEPT ![i] = position],
     tl |-> IF duration = 0 THEN sw.tl
            ELSE Append(sw.tl, GsapTo(Mesh(i), position, duration))]

\* drones.forEach((drone, i) => drone.setTarget(targets[i], duration)), from
\* drone i onwards
RECURSIVE ForEachDrone(_, _, _, _)
ForEachDrone(sw, i, targets, duration) ==
    IF i >= droneCount THEN sw
    ELSE ForEachDrone(setTarget(sw, i, targets[i], duration), i + 1, targets, duration)

\* every drone sent to the first drone's initial position
ResetTargetShared(i) == initialPosition[0]

\* the position resetFormation sends drone i to (line 196)
ResetTarget(i) == initialPosition[i]

\* a command may be issued while fewer than MaxCommands have been (bound of
\* the model)
Room == hist.count < MaxCommands

Meshes == {Mesh(i) : i \in DroneIds}

\* every drone has no tween and sits on its grid position
AtRestOnGrid ==
    /\ \A k \in 1..Len(timeline) : timeline[k].target \notin Meshes
    /\ meshPosition = gridPositions

\* the history after a swarm command
HistCommand(name, duration, isReset, withCamera) ==
    [cmd |-> name,
     duration |-> duration,
     prev |-> IF hist.since = 0 /\ hist.cmd # "none" THEN hist.duration ELSE 0 - 1,
     since |-> 0,
     settled |-> duration = 0,
     rest |-> IF ~isReset THEN 0
              ELSE IF hist.rest >= 1 THEN Min(hist.rest + 1, 2)
              ELSE IF AtRestOnGrid THEN 1 ELSE 0,
     camera |-> withCamera,
     count |-> hist.count + 1,
     away |-> cameraPosition # initialCameraPosition.position]

Init ==
    /\ meshPosition = gridPositions
    /\ targetPosition = gridPositions
    /\ initialPosition = gridPositions
    /\ cameraPosition = initialCameraPosition.position
    /\ controlsTarget = initialCameraPosition.target
    /\ timeline = <<>>
    /\ hist = [cmd |-> "none", duration |-> 0, prev |-> 0 - 1, since |-> 0,
               settled |-> FALSE, rest |-> 0, camera |-> FALSE,
               count |-> 0, away |-> FALSE]
    /\ gen = [shape |-> "none"]

\* the effect of a swarm command on the swarm
ApplySwarm(sw) ==
    /\ meshPosition' = sw.mesh
    /\ targetPosition' = sw.target
    /\ timeline' = sw.tl

\* droneAPI.resetFormation(duration) (lines 194-198)
ResetFormation(duration) ==
    /\ Room
    /\ ApplySwarm(ForEachDrone(Swarm, 0, [i \in DroneIds |-> ResetTarget(i)], duration))
    /\ hist' = HistCommand("resetFormation", duration, TRUE, FALSE)
    /\ UNCHANGED <<initialPosition, cameraPosition, controlsTarget, gen>>

\* droneAPI.formSphere(radius, duration) (lines 200-213)
FormSphere(radius, duration) ==
    /\ Room
    /\ ApplySwarm(ForEachDrone(Swarm, 0, sphereTargets[radius], duration))
    /\ hist' = HistCommand("formSphere", duration, FALSE, FALSE)
    /\ UNCHANGED <<initialPosition, cameraPosition, controlsTarget, gen>>

\* droneAPI.formDoubleHelix(radius, height, duration) (lines 215-226)
FormDoubleHelix(radius, height, duration) ==
    /\ Room
    /\ ApplySwarm(ForEachDrone(Swarm, 0, helixTargets[radius][height], duration))
    /\ hist' = HistCommand("formDoubleHelix", duration, FALSE, FALSE)
    /\ UNCHANGED <<initialPosition, cameraPosition, controlsTarget, gen>>

\* default duration of the commands (lines 173, 194, 229)
defaultDuration == 2

\* the camera tweens started with the default duration, not the argument
CameraTweensDefaultDuration(tl, duration) ==
    IF duration = 0 THEN tl
    ELSE tl \o <<GsapTo(Camera, initialCameraPosition.position, defaultDuration),
                 GsapTo(Controls, initialCameraPosition.target, defaultDuration)>>

\* the two tweens of resetCamera (lines 174-191) appended to timeline tl
CameraTweens(tl, duration) ==
    IF duration = 0 THEN tl
    ELSE tl \o <<GsapTo(Camera, initialCameraPosition.position, duration),
                 GsapTo(Controls, initialCameraPosition.target, duration)>>

\* camera.position and controls.target right after resetCamera(duration)
CameraAfterReset(duration) ==
    /\ cameraPosition' = IF duration = 0 THEN initialCameraPosition.position
                         ELSE cameraPosition
    /\ controlsTarget' = IF duration = 0 THEN initialCameraPosition.target
                         ELSE controlsTarget

\* droneAPI.resetCamera(duration) (lines 173-192)
ResetCamera(duration) ==
    /\ Room
    /\ CameraAfterReset(duration)
    /\ timeline' = CameraTweens(Unmark(timeline), duration)
    /\ hist' = [hist EXCEPT !.camera = FALSE, !.count = @ + 1, !.settled = FALSE]
    /\ UNCHANGED <<meshPosition, targetPosition, initialPosition, gen>>

\* droneAPI.resetAll(duration) (lines 229-232): resetCamera, then resetFormation
ResetAll(duration) ==
    /\ Room
    /\ CameraAfterReset(duration)
    /\ ApplySwarm(ForEachDrone([Swarm EXCEPT !.tl = CameraTweens(@, duration)], 0,
            [i \in DroneIds |-> ResetTarget(i)], duration))
    /\ hist' = HistCommand("resetAll", duration, TRUE, TRUE)
    /\ UNCHANGED <<initialPosition, gen>>

\* the user drags the scene with the OrbitControls (lines 130-134, 166)
OrbitDrag(pose) ==
    /\ <<cameraPosition, controlsTarget>> # pose
    /\ cameraPosition' = pose[1]
    /\ controlsTarget' = pose[2]
    /\ hist' = [hist EXCEPT !.settled = FALSE]
    /\ UNCHANGED <<meshPosition, targetPosition, initialPosition, timeline, gen>>

\* one frame of gsap's ticker, delta after the previous one: every live tween
\* is rendered once
Tick(delta) ==
    LET val0 == Values(meshPosition, cameraPosition, controlsTarget)
        val1 == RenderPass(timeline, 1, val0, delta)
        val2 == LazyRender(timeline, 1, val1, val1, delta)
    IN  /\ meshPosition' = [i \in DroneIds |-> val2[Mesh(i)]]
        /\ cameraPosition' = val2[Camera]
        /\ controlsTarget' = val2[Controls]
        /\ timeline' = Advance(timeline, val1, delta)
        /\ hist' = [hist EXCEPT
                      !.since = Min(@ + delta, MaxDuration),
                      !.settled = /\ hist.cmd # "none"
                                  /\ hist.since < hist.duration
                                  /\ hist.since + delta >= hist.duration]
        /\ UNCHANGED <<targetPosition, initialPosition, gen>>

Next ==
    \/ \E d \in Durations : ResetFormation(d)
    \/ \E r \in Radii, d \in Durations : FormSphere(r, d)
    \/ \E r \in Radii, h \in Heights, d \in Durations : FormDoubleHelix(r, h, d)
    \/ \E d \in Durations : ResetCamera(d)
    \/ \E d \in Durations : ResetAll(d)
    \/ \E pose \in CameraPoses : OrbitDrag(pose)
    \/ \E delta \in Deltas : Tick(delta)

Spec == Init /\ [][Next]_vars

-----------------------------------------------------------------------------
(* The formation generators on their own: every swarm size up to MaxCount *)

GenCounts == 1..MaxCount
GenRadii == {0 - defaultRadius, 0, 1, defaultRadius}
GenHeights == {defaultHeight}

GenInputs ==
    {[shape |-> "input", n |-> n, i |-> i, radius |-> r, height |-> h,
      angle |-> <<0, 1>>, out |-> <<0, 0, 0>>] :
        n \in GenCounts, i \in 0..(MaxCount - 1), r \in GenRadii, h \in GenHeights}

InitGen ==
    /\ meshPosition = gridPositions
    /\ targetPosition = gridPositions
    /\ initialPosition = gridPositions
    /\ cameraPosition = initialCameraPosition.position
    /\ controlsTarget = initialCameraPosition.target
    /\ timeline = <<>>
    /\ hist = [cmd |-> "none", duration |-> 0, prev |-> 0 - 1, since |-> 0,
               settled |-> FALSE, rest |-> 0, camera |-> FALSE,
               count |-> 0, away |-> FALSE]
    /\ gen \in {g \in GenInputs : g.i < g.n}

\* the body of formSphere's forEach for drone gen.i of gen.n (lines 204-211)
GenerateSphere ==
    /\ gen.shape = "input"
    /\ gen' = [gen EXCEPT !.shape = "sphere",
                          !.angle = SphereTheta(gen.i),
                          !.out = SphereTarget(gen.i, gen.n, gen.radius)]
    /\ UNCHANGED <<meshPosition, targetPosition, initialPosition, cameraPosition,
                   controlsTarget, timeline, hist>>

\* the body of formDoubleHelix's forEach for drone gen.i of gen.n (lines 218-224)
GenerateHelix ==
    /\ gen.shape = "input"
    /\ gen' = [gen EXCEPT !.shape = "helix",
                          !.angle = HelixAngle(gen.i, gen.n),
                          !.out = HelixTarget(gen.i, gen.n, gen.radius, gen.height)]
    /\ UNCHANGED <<meshPosition, targetPosition, initialPosition, cameraPosition,
                   controlsTarget, timeline, hist>>

NextGen == GenerateSphere \/ GenerateHelix

SpecGen == InitGen /\ [][NextGen]_vars

-----------------------------------------------------------------------------
(* Claims *)

\* drone i has a tween in flight
InFlight(i) == Len(TweensOn(timeline, Mesh(i))) > 0

\* squared distance between two points
Dist2(a, b) ==
    (a[1] - b[1]) * (a[1] - b[1]) + (a[2] - b[2]) * (a[2] - b[2])
        + (a[3] - b[3]) * (a[3] - b[3])

\* every drone is where its targetPosition says
AllOnTarget == \A i \in DroneIds : meshPosition[i] = targetPosition[i]

\* C1 (as claimed): when a command with duration dB follows, with no frame in
\* between, a command with a longer duration dA, every drone is on the second
\* command's target from elapsed time dB on, for as long as no further command
\* comes.
PreemptionLastWriterWins ==
    (hist.cmd # "none" /\ hist.prev > hist.duration /\ hist.duration > 0
        /\ hist.since >= hist.duration)
    => AllOnTarget

\* C2 (as claimed): once the time elapsed since the last command, of duration
\* D > 0, has reached D, every drone's position equals its targetPosition.
Convergence ==
    (hist.cmd # "none" /\ hist.duration > 0 /\ hist.since >= hist.duration)
    => AllOnTarget

\* C3 (as claimed): a drone with no tween in flight is on its targetPosition.
AtRestInvariant ==
    \A i \in DroneIds : ~InFlight(i) => meshPosition[i] = targetPosition[i]

\* C4 (as claimed): for a swarm of one drone formSphere computes no NaN
\* coordinate: the drone's target is the pole (0, radius, 0).
SphereOfOneIsPole ==
    (gen.shape = "sphere" /\ gen.n = 1)
    => /\ \A c \in 1..3 : gen.out[c] # NaN
       /\ gen.out = <<0, Units(gen.radius), 0>>

\* C5 (as claimed): after a command of duration 0 and at least one frame,
\* every drone is on its target and has no tween in flight.
ZeroDurationSnap ==
    (hist.cmd # "none" /\ hist.duration = 0 /\ hist.since >= 1)
    => \A i \in DroneIds : meshPosition[i] = targetPosition[i] /\ ~InFlight(i)

\* C6 (as claimed): no command changes a drone's initialPosition, and once the
\* time elapsed since a resetFormation(D) has reached D, every drone is on the
\* grid position it was constructed with.
ResetReturnsToGrid ==
    /\ initialPosition = gridPositions
    /\ (hist.cmd \in {"resetFormation", "resetAll"} /\ hist.since >= hist.duration)
       => meshPosition = gridPositions

\* C7: from a swarm at rest on the initial grid, resetFormation issued once,
\* twice or more moves no drone: in every later frame each drone is still on
\* its initialPosition.
GridResetIdempotent ==
    hist.rest >= 1 => \A i \in DroneIds : meshPosition[i] = initialPosition[i]

\* C7 witness: two resets with a positive duration were issued from rest on
\* the grid, and a frame has been rendered since.
GridResetIdempotentWitness ==
    /\ hist.rest = 2
    /\ hist.duration > 0
    /\ hist.since = 1
    /\ \E i \in DroneIds : Len(TweensOn(timeline, Mesh(i))) = 2

\* a step that renders a frame (no command is issued in it)
FrameStep == hist'.count = hist.count /\ hist'.since > hist.since

\* C8 (as claimed): in a frame that follows a command of duration D > 0, the
\* distance of a drone with a tween in flight to its targetPosition does not
\* grow.
MonotonicProgress ==
    [][(FrameStep /\ hist.duration > 0) =>
        \A i \in DroneIds :
            InFlight(i) =>
                Dist2(meshPosition'[i], targetPosition'[i])
                    <= Dist2(meshPosition[i], targetPosition[i])]_vars

\* C9 (as claimed): the helix angle of the last drone, index N - 1, is 6 pi
\* (angles are fractions of pi: num / den = 2 * turns).
HelixLastAngleIsThreeTurns ==
    (gen.shape = "helix" /\ gen.i = gen.n - 1)
    => gen.angle[1] = 2 * turns * gen.angle[2]

\* C9 (amended): the helix angle of the last drone, index N - 1, is
\* 6 pi * (N - 1) / N: it falls short of three full turns by 6 pi / N.
HelixLastAngleFallsShort ==
    (gen.shape = "helix" /\ gen.i = gen.n - 1)
    => /\ gen.angle[1] * gen.n = 2 * turns * (gen.n - 1) * gen.angle[2]
       /\ gen.angle[1] < 2 * turns * gen.angle[2]

\* C9 witness: the angle of the last drone of a swarm of several was computed.
HelixLastAngleWitness ==
    gen.shape = "helix" /\ gen.i = gen.n - 1 /\ gen.n > 1

\* object o carries a tween of the most recent command
HasLast(o) == \E k \in 1..Len(timeline) : timeline[k].target = o /\ timeline[k].last

====
